---------------------------- MODULE Spec2Model ----------------------------
(***************************************************************************)
(* State-machine model of the OpenCL Kraskov estimators of IDTxl           *)
(* (src/idtxl/estimators_opencl.py): OpenCLKraskovMI.estimate,             *)
(* OpenCLKraskovCMI.estimate and their _estimate_single_run methods, the   *)
(* in-order command queue they drive and the device buffers they own.      *)
(*                                                                         *)
(* Coordinates are fixed-point integers: FixedPoint units make 1.0.         *)
(* Arrays are sequences (1-based); the index arithmetic of the source is   *)
(* 0-based and is kept 0-based, with "+ 1" only where a sequence is read.  *)
(***************************************************************************)
EXTENDS Integers, Sequences, FiniteSets, TLC

(***************************************************************************)
(* Bounds of the model.                                                    *)
(***************************************************************************)
MaxChunks == 3
MaxChunkLen == 2
MaxK == 2
MaxTheiler == 1
MaxLag == 1
MaxSeed == 1
NumVals == 3

(***************************************************************************)
(* Program constants.                                                      *)
(***************************************************************************)
pad_target == 1024
PadSentinel == 999999
sizeof_float == 4
sizeof_int == 4
INFINITY == 2147483647

\* Fixed-point resolution: FixedPoint units make 1.0 (a power of two, so that
\* the float32 grid is a grid of whole units).
FixedPoint == 2 ^ 7

(***************************************************************************)
(* Arithmetic helpers.                                                     *)
(***************************************************************************)
Min(a, b) == IF a <= b THEN a ELSE b
Max(a, b) == IF a >= b THEN a ELSE b
Abs(a) == IF a >= 0 THEN a ELSE 0 - a

\* int(np.ceil(a / b)) for a >= 0, b > 0
CeilDiv(a, b) == (a + b - 1) \div b

\* python: seq[lo:hi] of a sequence (0-based, hi exclusive; a negative index
\* counts from the end, and both ends are clamped to the sequence)
Slice(s, lo, hi) ==
    LET l == IF lo < 0 THEN Max(lo + Len(s), 0) ELSE Min(lo, Len(s))
        h == IF hi < 0 THEN Max(hi + Len(s), 0) ELSE Min(hi, Len(s))
    IN  IF h <= l THEN << >> ELSE [i \in 1..(h - l) |-> s[l + i]]

\* a concatenation that puts the new part first
ConcatReversed(a, b) == b \o a

\* np.concatenate of two 1-D arrays
Concat(a, b) == a \o b

(***************************************************************************)
(* Input data and random draws.  The caller's arrays are drawn from a      *)
(* family indexed by a seed; np.random is a generator whose draws are a    *)
(* function of its (unknown) state, the seed chosen when it is used.       *)
(***************************************************************************)
\* value of variable v (1: var1, 2: var2, 3: conditional), row i, column c
DataVal(v, i, c, seed) ==
    (((i * i * (seed + 1) + v * i + c * (seed + v)) % NumVals) * FixedPoint) \div 2

InputArray(v, nrows, dim, seed) ==
    [i \in 1..nrows |-> [c \in 1..dim |-> DataVal(v, i, c, seed)]]

\* 0.1 * np.random.rand(): a value of [0, 0.1)
JitterMax == FixedPoint \div 10
RandJitter(seed, v, i, c) == (seed * 5 + i * 3 + v + c) % (JitterMax + 1)

\* np.random.normal(scale = 1): a draw, cut to whole units around zero
RandNormal(seed, q) == ((seed + q) % 3) - 1

(***************************************************************************)
(* astype(np.float32): round to 24 significant bits, ties to even.         *)
(***************************************************************************)
Float32Step(a) ==
    IF a < 2 ^ 24 THEN 1
    ELSE IF a < 2 ^ 25 THEN 2
    ELSE IF a < 2 ^ 26 THEN 4
    ELSE IF a < 2 ^ 27 THEN 8
    ELSE IF a < 2 ^ 28 THEN 16
    ELSE IF a < 2 ^ 29 THEN 32
    ELSE IF a < 2 ^ 30 THEN 64
    ELSE 128

Float32(x) ==
    LET a == Abs(x)
        step == Float32Step(a)
        q == a \div step
        rem == a % step
        up == (2 * rem > step) \/ (2 * rem = step /\ q % 2 = 1)
        r == (IF up THEN q + 1 ELSE q) * step
    IN  IF x >= 0 THEN r ELSE 0 - r

(***************************************************************************)
(* Padding and point-set assembly of _estimate_single_run.                 *)
(***************************************************************************)
\* a pad size that adds a whole block to a row count that is a multiple already
PadSizeAlways(signallength) == pad_target - (signallength % pad_target)

\* pad_size = int(np.ceil(signallength / pad_target)) * pad_target - signallength
PadSize(signallength) ==
    CeilDiv(signallength, pad_target) * pad_target - signallength

\* a padding that jitters every row of the padded array
PadVarJitterAll(v, var, pad_size, dim, jseed) ==
    [i \in 1..Len(var) |->
        [c \in 1..dim |-> var[i][c] + RandJitter(jseed, v, pad_size + i, c)]]
    \o [i \in 1..pad_size |->
          [c \in 1..dim |-> PadSentinel * FixedPoint + RandJitter(jseed, v, i, c)]]

\* np.vstack([var, 999999 + 0.1 * np.random.rand(pad_size, dim)])
PadVar(v, var, pad_size, dim, jseed) ==
    var \o [i \in 1..pad_size |->
              [c \in 1..dim |-> PadSentinel * FixedPoint + RandJitter(jseed, v, i, c)]]

\* np.hstack(blocks).T.copy(): the flat, dimension-major point set; blocks is
\* a sequence of [arr, dim] records whose arrays hold n rows each
HStackT(blocks, n) ==
    LET dimsum[b \in 0..Len(blocks)] ==
            IF b = 0 THEN 0 ELSE dimsum[b - 1] + blocks[b].dim
        pointdim == dimsum[Len(blocks)]
        blk(col) == CHOOSE b \in 1..Len(blocks) :
                        dimsum[b - 1] <= col /\ col < dimsum[b]
    IN  [q \in 1..(pointdim * n) |->
            LET col == (q - 1) \div n
                row == (q - 1) % n
                b == blk(col)
            IN  blocks[b].arr[row + 1][col - dimsum[b - 1] + 1]]

\* pointset += np.random.normal(scale = noise_level, size = pointset.shape)
\* when noise_level > 0; then astype(np.float32)
AddNoise(pointset, noise_level, nseed) ==
    IF noise_level > 0
    THEN [q \in 1..Len(pointset) |-> pointset[q] + noise_level * RandNormal(nseed, q)]
    ELSE pointset

AsFloat32(pointset) == [q \in 1..Len(pointset) |-> Float32(pointset[q])]

(***************************************************************************)
(* The two device kernels (gpuKnnKernelNoIdx.cl).  Buffers are flat         *)
(* sequences of 4-byte cells; a kernel argument that is a sub-region is     *)
(* the parent buffer with the cell offset of the region.                    *)
(***************************************************************************)
\* a cell of a buffer of size cells, 0-based; a read past the buffer's end
\* finds no data
Cell(buf, size, idx) == IF idx >= 0 /\ idx < size THEN buf[idx + 1] ELSE INFINITY

\* max-norm distance of rows a and b over dim columns stored from cell base
MaxMetricPoints(buf, size, base, dim, signallength, a, b) ==
    LET d == {Abs(Cell(buf, size, base + c * signallength + a)
                  - Cell(buf, size, base + c * signallength + b)) : c \in 0..(dim - 1)}
    IN  CHOOSE m \in d : \A y \in d : y <= m

\* the rows a work-item compares its own row tid with: the rows of its own
\* trial (tid / triallength), outside the Theiler window, that exist
Candidates(tid, triallength, signallength, exclude) ==
    LET itrial == tid \div triallength
        indexi == tid - triallength * itrial
    IN  {itrial * triallength + t :
            t \in {u \in 0..(triallength - 1) :
                      /\ (u < indexi - exclude \/ u > indexi + exclude)
                      /\ itrial * triallength + u < signallength}}

\* the j-th smallest (j >= 1) of the distances of row tid to the rows of cand;
\* INFINITY (the initial value of the candidate list) when there are fewer
KthSmallest(buf, size, dim, signallength, tid, cand, j) ==
    IF Cardinality(cand) < j THEN INFINITY
    ELSE LET dist == {<< z, MaxMetricPoints(buf, size, 0, dim, signallength, tid, z) >> :
                         z \in cand}
             x == CHOOSE p \in dist :
                    /\ Cardinality({y \in dist : y[2] < p[2]}) < j
                    /\ Cardinality({y \in dist : y[2] <= p[2]}) >= j
         IN  x[2]

\* kernelKNNshared: the distance buffer, kth blocks of signallength cells,
\* block j holding every row's (j+1)-th nearest-neighbour distance
kernelKNNshared(pointset, size, pointdim, triallength, signallength, kth, exclude) ==
    [q \in 1..(kth * signallength) |->
        LET tid == (q - 1) % signallength
            j == ((q - 1) \div signallength) + 1
        IN  KthSmallest(pointset, size, pointdim, signallength, tid,
                        Candidates(tid, triallength, signallength, exclude), j)]

\* kernelBFRSAllshared: per row, the number of rows of its trial, outside the
\* Theiler window, within the row's radius in the dim columns read from base
kernelBFRSAllshared(buf, size, base, radii, rsize, rbase, dim, triallength, signallength, exclude) ==
    [q \in 1..signallength |->
        LET tid == q - 1
            cand == Candidates(tid, triallength, signallength, exclude)
        IN  Cardinality({b \in cand :
                MaxMetricPoints(buf, size, base, dim, signallength, tid, b)
                    <= Cell(radii, rsize, rbase + tid)})]

(***************************************************************************)
(* Digamma statistics.  psi(n) = H(n-1) - gamma for whole n >= 1, and in   *)
(* both estimators the gamma terms cancel, so an estimate is a rational    *)
(* number: it is kept as its numerator over HarmonicDen * chunklength.     *)
(***************************************************************************)
RECURSIVE Lcm1To(_)
Gcd(a, b) ==
    LET g[x \in 0..a, y \in 0..b] ==
            IF y = 0 THEN x ELSE IF x = 0 THEN y
            ELSE IF x >= y THEN g[x - y, y] ELSE g[x, y - x]
    IN  g[a, b]
Lcm1To(n) == IF n <= 1 THEN 1 ELSE LET l == Lcm1To(n - 1) IN (l * n) \div Gcd(l, n)

\* the common denominator of the harmonic numbers the model's bounds allow
HarmonicDen == Lcm1To(Max(MaxK, MaxChunkLen + MaxLag + 1))

RECURSIVE HarmonicScaled(_)
\* HarmonicDen * (1 + 1/2 + ... + 1/n)
HarmonicScaled(n) ==
    IF n <= 0 THEN 0 ELSE HarmonicScaled(n - 1) + (HarmonicDen \div n)

\* HarmonicDen * (psi(n) + gamma)
DigammaScaled(n) == HarmonicScaled(n - 1)

RECURSIVE SumOver(_, _, _)
\* f[lo] + ... + f[hi]
SumOver(f, lo, hi) == IF hi < lo THEN 0 ELSE f[hi] + SumOver(f, lo, hi - 1)

\* _calculate_mi: per chunk, digamma(k) + digamma(chunklength)
\*   - mean(digamma(count_var1 + 1) + digamma(count_var2 + 1))
calculate_mi(kraskov_k, n_chunks, chunklength, count_var1, count_var2) ==
    [c \in 1..n_chunks |->
        LET term == [i \in 1..chunklength |->
                        DigammaScaled(count_var1[(c - 1) * chunklength + i] + 1)
                        + DigammaScaled(count_var2[(c - 1) * chunklength + i] + 1)]
        IN  chunklength * (DigammaScaled(kraskov_k) + DigammaScaled(chunklength))
            - SumOver(term, 1, chunklength)]

\* _calculate_cmi: per chunk, digamma(k) + mean(digamma(count_cnd + 1)
\*   - digamma(count_src + 1) - digamma(count_tgt + 1))
calculate_cmi(kraskov_k, n_chunks, chunklength, count_cnd, count_src, count_tgt) ==
    [c \in 1..n_chunks |->
        LET term == [i \in 1..chunklength |->
                        DigammaScaled(count_cnd[(c - 1) * chunklength + i] + 1)
                        - DigammaScaled(count_src[(c - 1) * chunklength + i] + 1)
                        - DigammaScaled(count_tgt[(c - 1) * chunklength + i] + 1)]
        IN  chunklength * DigammaScaled(kraskov_k) + SumOver(term, 1, chunklength)]

(***************************************************************************)
(* Estimator settings and construction.                                    *)
(***************************************************************************)
\* dict.setdefault(key, val)
SetDefault(d, key, val) == IF key \in DOMAIN d THEN d ELSE d @@ (key :> val)

\* GPUKraskov.__init__: the settings it is given, with the defaults set
GPUKraskovInit(user) ==
    SetDefault(SetDefault(SetDefault(SetDefault(user,
        "kraskov_k", 4), "theiler_t", 0), "debug", FALSE), "return_counts", FALSE)

\* OpenCLKraskovMI.__init__
OpenCLKraskovMIInit(user) == SetDefault(GPUKraskovInit(user), "lag_mi", 0)

\* OpenCLKraskovCMI.__init__
OpenCLKraskovCMIInit(user) == GPUKraskovInit(user)

Construct(cls, user) ==
    [cls |-> cls,
     settings |-> IF cls = "MI" THEN OpenCLKraskovMIInit(user)
                  ELSE OpenCLKraskovCMIInit(user)]

\* what GPUKraskov.__init__ keeps as self.settings: a copy of the dictionary
\* it is given, or that dictionary itself.  The base class is not among the
\* sources, and neither outcome is excluded by them
SettingsKept == {"copy", "given"}

\* the dictionary handed to a constructor, after the construction: as it was
\* when the constructor kept a copy; with the defaults the constructors set
\* (lag_mi at line 141) when the constructor kept the dictionary itself
GivenAfterInit(kept, cls, given) ==
    IF kept = "given" THEN Construct(cls, given).settings ELSE given

(***************************************************************************)
(* Data preparation and chunk planning (GPUKraskov).                       *)
(***************************************************************************)
\* _prepare_data: every variable must hold a whole number of rows per chunk
PrepareDataOk(nrows, n_chunks) == nrows % n_chunks = 0

\* _add_mi_lag: var1[:-lag], var2[lag:] when lag_mi > 0
AddMiLag(var1, var2, lag_mi) ==
    IF lag_mi > 0
    THEN [var1 |-> Slice(var1, 0, 0 - lag_mi),
          var2 |-> Slice(var2, lag_mi, Len(var2))]
    ELSE [var1 |-> var1, var2 |-> var2]

\* device memory one trial-chunk needs: the points, kraskov_k distances per
\* point and one count per point and marginal, in 4-byte cells
MemChunk(dim_pointset, chunklength, kraskov_k, n_marginals) ==
    sizeof_float * chunklength * dim_pointset
    + sizeof_float * chunklength * kraskov_k
    + n_marginals * sizeof_int * chunklength

\* _get_chunks_per_run: the whole chunks that fit into max_mem, 0 when not
\* even one does (the call fails)
get_chunks_per_run(max_mem, n_chunks, dim_pointset, chunklength, kraskov_k, n_marginals) ==
    LET mem_chunk == MemChunk(dim_pointset, chunklength, kraskov_k, n_marginals)
    IN  IF mem_chunk = 0 THEN n_chunks
        ELSE Min(max_mem \div mem_chunk, n_chunks)

(***************************************************************************)
(* The sub-run of _estimate_single_run as a program of host instructions.  *)
(***************************************************************************)
\* number of marginal range searches
NumSearches(cls) == IF cls = "MI" THEN 2 ELSE 3

\* the device sub-regions (origin and size in bytes) taken from d_pointset
\* and d_distances
SubRegions(cls, var1dim, var2dim, conddim, signallength_padded, kraskov_k) ==
    LET first == [buf |-> "d_pointset", origin |-> 0,
                  size |-> sizeof_float * signallength_padded * var1dim]
        second == [buf |-> "d_pointset",
                   origin |-> sizeof_float * signallength_padded * var1dim,
                   size |-> sizeof_float * signallength_padded
                            * (IF cls = "MI" THEN var2dim ELSE conddim)]
        radius == [buf |-> "d_distances",
                   origin |-> signallength_padded * (kraskov_k - 1) * sizeof_float,
                   size |-> signallength_padded * sizeof_float]
    IN  [first |-> first, second |-> second, d_vecradius |-> radius]

\* the range searches in launch order: the sub-region searched, the
\* dimension passed to the kernel and the count buffer written
RangeSearches(cls, var1dim, var2dim, conddim) ==
    IF cls = "MI"
    THEN << [view |-> "first", dim |-> var1dim, cnt |-> "d_npointsrange_x"],
            [view |-> "second", dim |-> var2dim, cnt |-> "d_npointsrange_y"] >>
    ELSE << [view |-> "first", dim |-> var1dim + conddim, cnt |-> "d_npointsrange_x"],
            [view |-> "second", dim |-> var2dim + conddim, cnt |-> "d_npointsrange_y"],
            [view |-> "second", dim |-> conddim, cnt |-> "d_npointsrange_z"] >>

\* the host count arrays (by launch order) in the order the debug tuple
\* returns them: MI (count_var1, count_var2), CMI (count_cnd, count_src, count_tgt)
ReturnOrder(cls) == IF cls = "MI" THEN << 1, 2 >> ELSE << 3, 1, 2 >>

Ins(op, slot, blocking) == [op |-> op, slot |-> slot, blocking |-> blocking]

\* a sub-run that neither blocks on the copy of the distances nor calls finish
ProgramNoSync(cls) ==
    LET searches == [j \in 1..(2 * NumSearches(cls)) |->
                        IF j % 2 = 1 THEN Ins("rs", (j + 1) \div 2, FALSE)
                        ELSE Ins("copy", j \div 2, TRUE)]
    IN  << Ins("alloc", 0, FALSE), Ins("knn", 0, FALSE), Ins("copy", 0, FALSE) >>
        \o searches
        \o << Ins("release", 0, FALSE), Ins("return", 0, FALSE) >>

\* a sub-run whose copies of the count buffers do not block
ProgramAsyncCounts(cls) ==
    LET searches == [j \in 1..(2 * NumSearches(cls)) |->
                        IF j % 2 = 1 THEN Ins("rs", (j + 1) \div 2, FALSE)
                        ELSE Ins("copy", j \div 2, FALSE)]
    IN  << Ins("alloc", 0, FALSE), Ins("knn", 0, FALSE), Ins("copy", 0, TRUE),
           Ins("finish", 0, FALSE) >>
        \o searches
        \o << Ins("release", 0, FALSE), Ins("return", 0, FALSE) >>

\* the instructions of one sub-run, in program order; slot 0 is the distance
\* array, slot i the count array of range search i.  enqueue_copy blocks
\* (pyopencl's default for a copy to the host)
Program(cls) ==
    LET searches == [j \in 1..(2 * NumSearches(cls)) |->
                        IF j % 2 = 1 THEN Ins("rs", (j + 1) \div 2, FALSE)
                        ELSE Ins("copy", j \div 2, TRUE)]
    IN  << Ins("alloc", 0, FALSE), Ins("knn", 0, FALSE), Ins("copy", 0, TRUE),
           Ins("finish", 0, FALSE) >>
        \o searches
        \o << Ins("release", 0, FALSE), Ins("return", 0, FALSE) >>

(***************************************************************************)
(* State.                                                                  *)
(***************************************************************************)
VARIABLES
    scen,      \* the caller: settings passed, data, device memory, call plan
    inst,      \* the estimator instance the caller holds: [cls, settings]
    self,      \* the estimator whose estimate() is running (inst or the MI
               \* estimator a CMI estimator delegates to)
    pc,        \* host position: [at, i, issued]
    est,       \* the frame of estimate()
    run,       \* the frame of _estimate_single_run()
    mem,       \* device buffers of the sub-run's frame by name: [alloc, cells, data]
    held,      \* device buffers of the frames of an earlier, failed call, alive
               \* as long as the caller keeps its exception: [buf, cells]
    queue,     \* the in-order command queue: commands not yet executed
    trace,     \* history: the queue operations of the current sub-run
    subruns,   \* history: the sub-runs of the current call
    out,       \* the outcome of the current call
    prev       \* the previous call of the caller and its outcome

vars ==
    << scen, inst, self, pc, est, run, mem, held, queue, trace, subruns, out, prev >>

BufferNames == {"d_pointset", "d_distances", "d_npointsrange_x",
                "d_npointsrange_y", "d_npointsrange_z"}
NoBuffer == [alloc |-> FALSE, cells |-> 0, data |-> << >>]
NoMem == [b \in BufferNames |-> NoBuffer]

EmptyEst ==
    [n_chunks |-> 0, var1 |-> << >>, var2 |-> << >>, conditional |-> << >>,
     signallength |-> 0, chunklength |-> 0, chunks_per_run |-> 0, r |-> 0,
     bound |-> FALSE, mi_array |-> << >>, distances |-> << >>,
     counts |-> << << >>, << >>, << >> >>, chunk_ids |-> << >>]

EmptyRun ==
    [var1 |-> << >>, var2 |-> << >>, conditional |-> << >>, n_chunks |-> 0,
     signallength |-> 0, chunklength |-> 0, var1dim |-> 0, var2dim |-> 0,
     conddim |-> 0, pointdim |-> 0, pad_size |-> 0, signallength_padded |-> 0,
     workitems_x |-> 0, NDRange_x |-> 0,
     pointset |-> << >>, host |-> [slot \in 0..3 |-> << >>], result |-> << >>]

NoOutcome == [kind |-> "none"]
Failure(e) == [kind |-> "error", error |-> e]
Success(v) == [kind |-> "ok", value |-> v]

At(a) == [at |-> a, i |-> 0, issued |-> FALSE]

\* the caller's arrays
Var1 == InputArray(1, scen.nrows, scen.dims[1], scen.dseed)
Var2 == InputArray(2, scen.nrows, scen.dims[2], scen.dseed)
Conditional == InputArray(3, scen.nrows, scen.dims[3], scen.dseed)

\* the instruction the host is at
Instr == Program(self.cls)[pc.i]

(***************************************************************************)
(* estimate(): delegation, preparation, the sub-run loop.                  *)
(***************************************************************************)
Fail(e) ==
    /\ out' = Failure(e)
    /\ pc' = At("done")

\* a delegation that drops n_chunks (the default of estimate() is 1)
DelegatedDefault(n_chunks) == 1

\* est_mi.estimate(var1, var2, n_chunks): the n_chunks the MI estimator gets
DelegatedChunks(n_chunks) == n_chunks

\* OpenCLKraskovCMI.estimate with conditional = None: build an MI estimator
\* from the settings and hand the call over
CMIWithoutConditional ==
    /\ pc.at = "call"
    /\ self.cls = "CMI"
    /\ ~scen.conditional
    /\ self' = Construct("MI", self.settings)
    /\ inst' = [inst EXCEPT !.settings =
                    GivenAfterInit(scen.kept, "MI", self.settings)]
    /\ est' = [est EXCEPT !.n_chunks = DelegatedChunks(est.n_chunks)]
    /\ UNCHANGED << scen, pc, run, mem, held, queue, trace, subruns, out, prev >>

\* a loop that steps by one chunk whatever a sub-run takes
NextRByOne(r, chunks_per_run) == r + 1

\* for r in range(0, n_chunks, chunks_per_run): the next r
NextR(r, chunks_per_run) == r + chunks_per_run

StartIdx(r, chunklength) == r * chunklength
StopIdx(r, chunks_per_run, n_chunks, chunklength) ==
    Min(r + chunks_per_run, n_chunks) * chunklength

\* chunklength = signallength // n_chunks, of estimate() and of
\* _estimate_single_run()
ChunkLength(signallength, n_chunks) == signallength \div n_chunks

\* the head of estimate(): checked data, lag, chunk length, chunks per run
Prepare ==
    /\ pc.at = "call"
    /\ ~(self.cls = "CMI" /\ ~scen.conditional)
    /\ LET n_chunks == est.n_chunks
           lagged == IF self.cls = "MI"
                     THEN AddMiLag(Var1, Var2, self.settings.lag_mi)
                     ELSE [var1 |-> Var1, var2 |-> Var2]
           signallength == Len(lagged.var1)
           chunklength == ChunkLength(signallength, n_chunks)
           dim_pointset == scen.dims[1] + scen.dims[2]
                           + (IF self.cls = "CMI" THEN scen.dims[3] ELSE 0)
           chunks_per_run == get_chunks_per_run(scen.max_mem, n_chunks,
                                 dim_pointset, chunklength,
                                 self.settings.kraskov_k, NumSearches(self.cls))
       IN  IF ~PrepareDataOk(scen.nrows, n_chunks)
           THEN Fail("ShapeMismatch") /\ UNCHANGED est
           ELSE IF chunks_per_run = 0
           THEN Fail("OutOfMemory") /\ UNCHANGED est
           ELSE /\ est' = [EmptyEst EXCEPT
                              !.n_chunks = n_chunks,
                              !.var1 = lagged.var1,
                              !.var2 = lagged.var2,
                              !.conditional = IF self.cls = "CMI" THEN Conditional
                                              ELSE << >>,
                              !.signallength = signallength,
                              !.chunklength = chunklength,
                              !.chunks_per_run = chunks_per_run,
                              !.bound = self.settings.debug]
                /\ pc' = At("loop")
                /\ out' = out
    /\ UNCHANGED << scen, inst, self, run, mem, held, queue, trace, subruns, prev >>

\* a launch that passes the row count of the sub-run as the trial length
KernelChunklengthAll(f) == f.signallength

\* a launch that passes the padded row count as the trial length
KernelChunklengthPadded(f) == f.signallength_padded

\* the kernel launch arguments taken from the frame of the sub-run
KernelChunklength(f) == f.chunklength
KernelSignallength(f) == f.signallength_padded

\* the work-group sizes the code chooses from
workitems_small == 8
workitems_large == 256

\* workitems_x: 8 when the chunk is shorter than the device's largest work
\* group, else that largest size when it is below 256, else 256
WorkItems(chunklength, max_work_group_size) ==
    IF chunklength < max_work_group_size THEN workitems_small
    ELSE IF max_work_group_size < workitems_large THEN max_work_group_size
    ELSE workitems_large

\* NDRange_x = workitems_x * (int((signallength_padded - 1) / workitems_x) + 1)
NDRange(signallength_padded, workitems_x) ==
    workitems_x * ((signallength_padded - 1) \div workitems_x + 1)

\* the head of _estimate_single_run(): sizes, padding, noise, float32
SingleRunSetup(cls, settings, var1, var2, conditional, n_chunks, dims, seed) ==
    LET signallength == Len(var1)
        pad_size == PadSize(signallength)
        signallength_padded == signallength + pad_size
        b1 == [arr |-> PadVar(1, var1, pad_size, dims[1], seed), dim |-> dims[1]]
        b2 == [arr |-> PadVar(2, var2, pad_size, dims[2], seed), dim |-> dims[2]]
        b3 == [arr |-> PadVar(3, conditional, pad_size, dims[3], seed), dim |-> dims[3]]
        blocks == IF cls = "MI" THEN << b1, b2 >> ELSE << b1, b3, b2 >>
    IN  [EmptyRun EXCEPT
            !.var1 = var1, !.var2 = var2, !.conditional = conditional,
            !.n_chunks = n_chunks,
            !.signallength = signallength,
            !.chunklength = ChunkLength(signallength, n_chunks),
            !.var1dim = dims[1], !.var2dim = dims[2],
            !.conddim = IF cls = "MI" THEN 0 ELSE dims[3],
            !.pointdim = dims[1] + dims[2] + (IF cls = "MI" THEN 0 ELSE dims[3]),
            !.pad_size = pad_size,
            !.signallength_padded = signallength_padded,
            !.pointset = AsFloat32(AddNoise(HStackT(blocks, signallength_padded),
                                            settings.noise_level, seed))]

\* one iteration of the loop of estimate() up to the call of
\* _estimate_single_run(), and that method up to its first device operation
SubRunStart ==
    /\ pc.at = "loop"
    /\ est.r < est.n_chunks
    /\ LET startidx == StartIdx(est.r, est.chunklength)
           stopidx == StopIdx(est.r, est.chunks_per_run, est.n_chunks, est.chunklength)
           subset1 == Slice(est.var1, startidx, stopidx)
           subset2 == Slice(est.var2, startidx, stopidx)
           subset3 == Slice(est.conditional, startidx, stopidx)
           n_chunks_current_run ==
               IF est.chunklength = 0 THEN 0 ELSE Len(subset1) \div est.chunklength
       IN  IF est.chunklength = 0 \/ n_chunks_current_run = 0
           THEN Fail("ZeroDivisionError") /\ UNCHANGED << run, subruns >>
           ELSE IF \/ Len(subset1) # Len(subset2)
                   \/ (self.cls = "CMI" /\ Len(subset1) # Len(subset3))
                   \/ Len(subset1) % n_chunks_current_run # 0
           THEN Fail("AssertionError") /\ UNCHANGED << run, subruns >>
           ELSE /\ LET setup == SingleRunSetup(self.cls, self.settings, subset1,
                                      subset2, subset3, n_chunks_current_run,
                                      scen.dims, scen.rseed + est.r)
                       workitems_x == WorkItems(setup.chunklength,
                                                scen.max_work_group_size)
                   IN  run' = [setup EXCEPT
                                 !.workitems_x = workitems_x,
                                 !.NDRange_x = NDRange(setup.signallength_padded,
                                                       workitems_x)]
                /\ subruns' = Append(subruns,
                                  [r |-> est.r, startidx |-> startidx,
                                   stopidx |-> stopidx,
                                   n_chunks |-> n_chunks_current_run])
                /\ pc' = [at |-> "run", i |-> 1, issued |-> FALSE]
                /\ out' = out
    /\ UNCHANGED << scen, inst, self, est, mem, held, queue, trace, prev >>

(***************************************************************************)
(* _estimate_single_run(): the device operations of a sub-run.             *)
(***************************************************************************)
\* a queued command; orphan: queued by a call that has since failed
Command(op, slot, id, args) == [op |-> op, slot |-> slot, id |-> id, args |-> args, orphan |-> FALSE]
Event(op, slot) == [op |-> op, slot |-> slot, done |-> FALSE]
NextInstr == [at |-> "run", i |-> pc.i + 1, issued |-> FALSE]

\* a kernel launch with a work-group size the device does not take raises
\* (CL_INVALID_WORK_GROUP_SIZE)
LaunchFails ==
    \/ run.workitems_x > scen.max_work_group_size
    \/ run.NDRange_x % run.workitems_x # 0

Buffer(bytes, data) == [alloc |-> TRUE, cells |-> bytes \div sizeof_float, data |-> data]

\* cl.Buffer(...): the point set is copied at creation (COPY_HOST_PTR), the
\* distance and count buffers are created without contents
Buffers ==
    [b \in BufferNames |->
        IF b = "d_pointset"
        THEN Buffer(sizeof_float * run.pointdim * run.signallength_padded,
                    run.pointset)
        ELSE IF b = "d_distances"
        THEN Buffer(sizeof_float * self.settings.kraskov_k
                        * run.signallength_padded, << >>)
        ELSE IF b = "d_npointsrange_z" /\ self.cls = "MI"
        THEN mem[b]
        ELSE Buffer(sizeof_int * run.signallength_padded, << >>)]

Alloc ==
    /\ pc.at = "run"
    /\ Instr.op = "alloc"
    /\ mem' = Buffers
    /\ run' = [run EXCEPT !.pointset = << >>]
    /\ pc' = NextInstr
    /\ UNCHANGED << scen, inst, self, est, held, queue, trace, subruns, out, prev >>

\* self.kNN_kernel(self.queue, ..., d_pointset, d_pointset, d_distances,
\*                 pointdim, chunklength, signallength_padded, kraskov_k, theiler_t)
LaunchKNN ==
    /\ pc.at = "run"
    /\ Instr.op = "knn"
    /\ ~LaunchFails
    /\ queue' = Append(queue, Command("knn", 0, Len(trace) + 1,
                    [pointdim |-> run.pointdim,
                     triallength |-> KernelChunklength(run),
                     signallength |-> KernelSignallength(run),
                     kth |-> self.settings.kraskov_k,
                     exclude |-> self.settings.theiler_t]))
    /\ trace' = Append(trace, Event("knn", 0))
    /\ pc' = NextInstr
    /\ UNCHANGED << scen, inst, self, est, run, mem, held, subruns, out, prev >>

\* self.RS_kernel(self.queue, ..., view, view, d_vecradius, count buffer,
\*                dim, chunklength, signallength_padded, theiler_t)
LaunchRS ==
    /\ pc.at = "run"
    /\ Instr.op = "rs"
    /\ ~LaunchFails
    /\ LET search == RangeSearches(self.cls, run.var1dim, run.var2dim,
                                   run.conddim)[Instr.slot]
           regions == SubRegions(self.cls, run.var1dim, run.var2dim, run.conddim,
                                 run.signallength_padded, self.settings.kraskov_k)
       IN  queue' = Append(queue, Command("rs", Instr.slot, Len(trace) + 1,
                        [view |-> regions[search.view],
                         radius |-> regions.d_vecradius,
                         cnt |-> search.cnt,
                         dim |-> search.dim,
                         triallength |-> KernelChunklength(run),
                         signallength |-> KernelSignallength(run),
                         exclude |-> self.settings.theiler_t]))
    /\ trace' = Append(trace, Event("rs", Instr.slot))
    /\ pc' = NextInstr
    /\ UNCHANGED << scen, inst, self, est, run, mem, held, subruns, out, prev >>

\* the device buffer copied into the host array of a slot
CopySource(cls, slot) ==
    IF slot = 0 THEN "d_distances"
    ELSE RangeSearches(cls, 0, 0, 0)[slot].cnt

\* np.zeros(signallength_padded * kraskov_k) for the distances,
\* np.zeros(signallength_padded) for the counts of a range search
HostZeros(slot) ==
    [q \in 1..(run.signallength_padded
               * (IF slot = 0 THEN self.settings.kraskov_k ELSE 1)) |-> 0]

\* host = np.zeros(...); cl.enqueue_copy(self.queue, host, device buffer)
EnqueueCopy ==
    /\ pc.at = "run"
    /\ Instr.op = "copy"
    /\ ~pc.issued
    /\ run' = [run EXCEPT !.host[Instr.slot] = HostZeros(Instr.slot)]
    /\ queue' = Append(queue, Command("copy", Instr.slot, Len(trace) + 1,
                    [src |-> CopySource(self.cls, Instr.slot)]))
    /\ trace' = Append(trace, Event("copy", Instr.slot))
    /\ pc' = [pc EXCEPT !.issued = TRUE]
    /\ UNCHANGED << scen, inst, self, est, mem, held, subruns, out, prev >>

\* enqueue_copy returns: at once when not blocking, else when the queue has
\* executed the copy
CopyReturn ==
    /\ pc.at = "run"
    /\ Instr.op = "copy"
    /\ pc.issued
    /\ Instr.blocking => queue = << >>
    /\ trace' = IF Instr.blocking THEN Append(trace, Event("wait", Instr.slot))
                ELSE trace
    /\ pc' = NextInstr
    /\ UNCHANGED << scen, inst, self, est, run, mem, held, queue, subruns, out, prev >>

\* self.queue.finish(): returns when the queue is empty
Finish ==
    /\ pc.at = "run"
    /\ Instr.op = "finish"
    /\ queue = << >>
    /\ trace' = Append(trace, Event("finish", 0))
    /\ pc' = NextInstr
    /\ UNCHANGED << scen, inst, self, est, run, mem, held, queue, subruns, out, prev >>

\* the buffers in the order the sub-run creates them
AllocOrder(cls) ==
    << "d_pointset", "d_distances", "d_npointsrange_x", "d_npointsrange_y" >>
    \o (IF cls = "MI" THEN << >> ELSE << "d_npointsrange_z" >>)

\* the buffers allocated among those of a frame, as kept alive by keeper: the
\* exception of the failed call, or the commands still queued
Allocated(buffers, keeper) ==
    {[buf |-> b, cells |-> buffers[b].cells, by |-> keeper] :
        b \in {x \in BufferNames : buffers[x].alloc}}

\* the buffers a queued command has as arguments
BuffersOf(cmd) ==
    IF cmd.op = "knn" THEN {"d_pointset", "d_distances"}
    ELSE IF cmd.op = "rs" THEN {cmd.args.view.buf, cmd.args.radius.buf, cmd.args.cnt}
    ELSE {cmd.args.src}

\* the buffers of a failed call that commands still queued have as arguments
Pinned(q) == UNION {BuffersOf(q[c]) : c \in {d \in 1..Len(q) : q[d].orphan}}

\* the device executes the command at the head of the queue.  A command of
\* a failed call works on the buffers that call left, which no one reads;
\* when it has run, the buffers only it kept alive are freed
DeviceStep ==
    /\ queue # << >>
    /\ LET cmd == Head(queue)
           a == cmd.args
       IN  IF cmd.orphan
           THEN /\ held' = {h \in held : h.by = "exception" \/ h.buf \in Pinned(Tail(queue))}
                /\ UNCHANGED << mem, run, trace >>
           ELSE /\ mem' = IF cmd.op = "knn"
                          THEN [mem EXCEPT !["d_distances"].data =
                                   kernelKNNshared(mem["d_pointset"].data,
                                       mem["d_pointset"].cells, a.pointdim,
                                       a.triallength, a.signallength, a.kth, a.exclude)]
                          ELSE IF cmd.op = "rs"
                          THEN [mem EXCEPT ![a.cnt].data =
                                   kernelBFRSAllshared(mem[a.view.buf].data,
                                       mem[a.view.buf].cells,
                                       a.view.origin \div sizeof_float,
                                       mem[a.radius.buf].data, mem[a.radius.buf].cells,
                                       a.radius.origin \div sizeof_float,
                                       a.dim, a.triallength, a.signallength, a.exclude)]
                          ELSE mem
                /\ run' = IF cmd.op = "copy"
                          THEN [run EXCEPT !.host[cmd.slot] = mem[a.src].data]
                          ELSE run
                /\ trace' = [trace EXCEPT ![cmd.id].done = TRUE]
                /\ held' = held
    /\ queue' = Tail(queue)
    /\ UNCHANGED << scen, inst, self, pc, est, subruns, out, prev >>

\* a device operation raises (cl.Error), while the device is under pressure
\* or because the device does not take the launch:
\* the exception leaves _estimate_single_run() and estimate() at the failing
\* line, no later line of either runs.  A failing allocation is the
\* allocation of buffer number j; the buffers before it exist.  A failing
\* enqueue_copy fails after the np.zeros(...) of the line before it
DeviceFail ==
    /\ pc.at = "run"
    /\ Instr.op \in {"alloc", "knn", "rs", "copy"}
    /\ ~pc.issued
    /\ \/ scen.recall = "retry"
       \/ Instr.op \in {"knn", "rs"} /\ LaunchFails
    /\ IF Instr.op = "alloc"
       THEN \E j \in 1..Len(AllocOrder(self.cls)) :
               held' = held \union Allocated(
                         [b \in BufferNames |->
                            IF \E i \in 1..(j - 1) : AllocOrder(self.cls)[i] = b
                            THEN Buffers[b]
                            ELSE mem[b]], "exception")
       ELSE held' = held \union Allocated(mem, "exception")
    /\ mem' = NoMem
    /\ queue' = [c \in 1..Len(queue) |-> [queue[c] EXCEPT !.orphan = TRUE]]
    /\ run' = IF Instr.op = "copy"
              THEN [run EXCEPT !.host[Instr.slot] = HostZeros(Instr.slot)]
              ELSE run
    /\ Fail("DeviceError")
    /\ UNCHANGED << scen, inst, self, est, trace, subruns, prev >>

\* the exception of a failed call is dropped by the caller, after the call
\* that failed or after a later call: the frames it kept alive die and
\* pyopencl frees the buffers they held, those that are arguments of a
\* command still queued when that command has run
Finalize ==
    /\ pc.at = "done"
    /\ \E h \in held : h.by = "exception"
    /\ held' = {[h EXCEPT !.by = "queue"] : h \in {x \in held : x.buf \in Pinned(queue)}}
    /\ UNCHANGED << scen, inst, self, pc, est, run, mem, queue, trace, subruns, out, prev >>

\* d_pointset.release() ... d_npointsrange_z.release(): the buffers of the
\* sub-run's own frame
Release ==
    /\ pc.at = "run"
    /\ Instr.op = "release"
    /\ mem' = NoMem
    /\ pc' = NextInstr
    /\ UNCHANGED << scen, inst, self, est, run, held, queue, trace, subruns, out, prev >>

\* array[:signallength]
Truncate(array, signallength) ==
    [i \in 1..Min(signallength, Len(array)) |-> array[i]]

\* the estimates of the sub-run from the host count arrays
Aggregate(cls, kraskov_k, n_chunks, chunklength, host) ==
    IF cls = "MI"
    THEN calculate_mi(kraskov_k, n_chunks, chunklength, host[1], host[2])
    ELSE calculate_cmi(kraskov_k, n_chunks, chunklength, host[3], host[1], host[2])

\* the value _estimate_single_run returns
SingleRunResult(cls, debug, mi_array, host, signallength) ==
    IF debug
    THEN << mi_array, Truncate(host[0], signallength) >>
         \o [j \in 1..NumSearches(cls) |->
                Truncate(host[ReturnOrder(cls)[j]], signallength)]
    ELSE << mi_array >>

SingleRunReturn ==
    /\ pc.at = "run"
    /\ Instr.op = "return"
    /\ run' = [run EXCEPT !.result =
                  SingleRunResult(self.cls, self.settings.debug,
                      Aggregate(self.cls, self.settings.kraskov_k, run.n_chunks,
                                run.chunklength, run.host),
                      run.host, run.signallength)]
    /\ pc' = At("collect")
    /\ UNCHANGED << scen, inst, self, est, mem, held, queue, trace, subruns, out, prev >>

\* back in estimate(): concatenate the results of the sub-run, next r
Collect ==
    /\ pc.at = "collect"
    /\ est' = [est EXCEPT
                  !.mi_array = Concat(est.mi_array, run.result[1]),
                  !.distances = IF self.settings.debug
                                THEN Concat(est.distances, run.result[2])
                                ELSE est.distances,
                  !.counts = IF self.settings.debug
                             THEN [j \in 1..3 |->
                                     IF j <= NumSearches(self.cls)
                                     THEN Concat(est.counts[j], run.result[2 + j])
                                     ELSE est.counts[j]]
                             ELSE est.counts,
                  !.chunk_ids = Concat(est.chunk_ids,
                                    [j \in 1..run.n_chunks |->
                                        (subruns[Len(subruns)].startidx
                                            \div est.chunklength) + j - 1]),
                  !.r = NextR(est.r, est.chunks_per_run)]
    /\ run' = EmptyRun
    /\ trace' = << >>
    /\ pc' = At("loop")
    /\ UNCHANGED << scen, inst, self, mem, held, queue, subruns, out, prev >>

\* the value estimate() returns after the loop
EstimateResult(cls, settings, frame) ==
    IF settings.return_counts
    THEN IF frame.bound
         THEN Success(<< frame.mi_array, frame.distances >>
                      \o [j \in 1..NumSearches(cls) |-> frame.counts[j]])
         ELSE Failure("UnboundLocalError")
    ELSE Success(<< frame.mi_array >>)

EstimateReturn ==
    /\ pc.at = "loop"
    /\ est.r >= est.n_chunks
    /\ out' = EstimateResult(self.cls, self.settings, est)
    /\ pc' = At("done")
    /\ UNCHANGED << scen, inst, self, est, run, mem, held, queue, trace, subruns, prev >>

(***************************************************************************)
(* The caller: scenarios, and a second call after the first has ended.     *)
(***************************************************************************)
Settings(k, t, noise, debug, rc) ==
    [kraskov_k |-> k, theiler_t |-> t, noise_level |-> noise, debug |-> debug,
     return_counts |-> rc]
WithLag(settings, lag) == settings @@ ("lag_mi" :> lag)

Scenario(cls, cond, user, n_chunks, nrows, dims, dseed, rseed, max_mem, recall) ==
    [cls |-> cls, conditional |-> cond, user |-> user, n_chunks |-> n_chunks,
     nrows |-> nrows, dims |-> dims, dseed |-> dseed, rseed |-> rseed,
     max_mem |-> max_mem, max_work_group_size |-> workitems_large,
     kept |-> "copy", recall |-> recall]

\* the call with a base class that keeps a copy or the dictionary it is given
Keeping(call, kept) == [call EXCEPT !.kept = kept]

\* the call on a device whose largest work group is of w work-items
OnDevice(call, w) == [call EXCEPT !.max_work_group_size = w]

\* device memory sizes (bytes): too small for one chunk, one, a few, all chunks
MemSizes == {2 ^ 4, 2 ^ 6, 2 ^ 6 + 2 ^ 5, 2 ^ 7, 2 ^ 16}
AllMem == 2 ^ 16

\* what a caller calls: an MI estimator, a CMI estimator with or without a
\* conditioning variable
Entries == {<< "MI", FALSE >>, << "CMI", FALSE >>, << "CMI", TRUE >>}
Plain == Settings(1, 0, 0, TRUE, TRUE)
OneDim == << 1, 1, 1 >>

Rows == 2 * MaxChunkLen

\* settings that differ from Plain in one option
OneOff ==
    {[Plain EXCEPT !.kraskov_k = k] : k \in 1..MaxK}
    \union {[Plain EXCEPT !.theiler_t = t] : t \in 0..MaxTheiler}
    \union {[Plain EXCEPT !.noise_level = z] : z \in {0, 1}}
    \union {[Plain EXCEPT !.debug = d, !.return_counts = c] : d, c \in BOOLEAN}
    \union {WithLag(Plain, lag) : lag \in 0..MaxLag}

\* batching: chunk counts, chunk lengths (with and without a remainder row)
\* and memory sizes
BatchScenarios ==
    {Scenario(e[1], e[2], Plain, n, n * l + rem, OneDim, 0, 0, m, "none") :
        e \in {<< "MI", FALSE >>, << "CMI", TRUE >>}, n \in 1..MaxChunks,
        l \in 1..MaxChunkLen, rem \in {0, 1}, m \in MemSizes}

\* settings: a CMI estimate under each of the settings
SettingsScenarios ==
    {Scenario("CMI", TRUE, u, 2, Rows, OneDim, d, 0, AllMem, "none") :
        u \in OneOff, d \in 0..MaxSeed}

\* a call without conditioning variable, then the same call on the MI estimator
EntryScenarios ==
    {Scenario("CMI", FALSE, u, n, Rows, OneDim, 0, 0, AllMem, "entry") :
        u \in OneOff, n \in {1, 2}}

\* a call, then the same call with the random generator in another state
ReseedScenarios ==
    {Scenario(e[1], e[2], [Plain EXCEPT !.noise_level = z], 2, Rows, OneDim,
              0, 0, m, "reseed") :
        e \in Entries, z \in {0, 1}, m \in {2 ^ 6, AllMem}}

\* a call in one sub-run, then the same call with less device memory
MemoryScenarios ==
    {Scenario(e[1], e[2], Plain, MaxChunks, MaxChunks * MaxChunkLen, OneDim,
              1, 0, AllMem, "memory") : e \in Entries}

\* sub-runs of pad_target rows and of one row more
PaddingScenarios ==
    {Scenario("MI", FALSE, Plain, n, n, OneDim, 0, 0, AllMem, "none") :
        n \in {pad_target, pad_target + 1}}

\* a call in two sub-runs during which a device operation may fail, then
\* the same call again
RetryScenarios ==
    {Scenario(e[1], e[2], Plain, 2, Rows, OneDim, 0, 0, 2 ^ 6, "retry") :
        e \in {<< "MI", FALSE >>, << "CMI", TRUE >>}}

\* largest work-group sizes of devices: below, at and above the sizes the
\* code chooses from
WorkGroupSizes ==
    {1, 2, 3, workitems_small \div 2, workitems_small, workitems_large - 1,
     workitems_large + 1}

\* one chunk of 1..MaxChunkLen + 1 rows on each of these devices
DeviceScenarios ==
    {OnDevice(Scenario("MI", FALSE, Plain, 1, l, OneDim, 0, 0, AllMem, "none"), w) :
        l \in 1..(MaxChunkLen + 1), w \in WorkGroupSizes}

\* CMI estimates of one chunk of MaxChunkLen + 1 rows, on each data set:
\* data whose neighbour counts differ between the subspaces
CountScenarios ==
    {Scenario("CMI", TRUE, Plain, 1, MaxChunkLen + 1, OneDim, d, 0, AllMem, "none") :
        d \in 0..MaxSeed}

CallScenarios ==
    BatchScenarios \union SettingsScenarios \union EntryScenarios
    \union ReseedScenarios \union MemoryScenarios \union PaddingScenarios
    \union RetryScenarios \union DeviceScenarios \union CountScenarios

\* the calls, those that build an MI estimator from the settings of the CMI
\* estimator under each outcome of the base class constructor
Scenarios ==
    {Keeping(s, "copy") : s \in CallScenarios}
    \union {Keeping(s, "given") :
               s \in {c \in CallScenarios : c.cls = "CMI" /\ ~c.conditional}}

\* the same caller calls again; the buffers a failed call left allocated and
\* the commands it left queued stay as they are:
\* with another random state, through the other entry (MI estimator / CMI
\* estimator without conditional), with another device memory size, or (retry)
\* as before after a call during which device operations could fail
Recall ==
    /\ pc.at = "done"
    /\ scen.recall # "none"
    /\ \E s \in 0..MaxSeed, m \in MemSizes :
          /\ scen.recall = "reseed" => (s # scen.rseed /\ m = scen.max_mem)
          /\ scen.recall = "entry" => (s = scen.rseed /\ m = scen.max_mem)
          /\ scen.recall = "memory" => (s = scen.rseed /\ m # scen.max_mem)
          /\ scen.recall = "retry" => (s = scen.rseed /\ m = scen.max_mem)
          /\ LET cls == IF scen.recall = "entry"
                        THEN (IF scen.cls = "MI" THEN "CMI" ELSE "MI")
                        ELSE scen.cls
                 next == [scen EXCEPT !.cls = cls, !.rseed = s, !.max_mem = m,
                                      !.recall = "none"]
             IN  /\ scen' = next
                 /\ inst' = IF cls = scen.cls THEN inst ELSE Construct(cls, scen.user)
                 /\ self' = inst'
                 /\ est' = [EmptyEst EXCEPT !.n_chunks = next.n_chunks]
    /\ prev' = [scen |-> scen, out |-> out, chunks_per_run |-> est.chunks_per_run,
                nsubruns |-> Len(subruns)]
    /\ pc' = At("call")
    /\ run' = EmptyRun
    /\ subruns' = << >>
    /\ out' = NoOutcome
    /\ trace' = << >>
    /\ UNCHANGED << mem, held, queue >>

NoPrev == [scen |-> [recall |-> "none"], out |-> NoOutcome, chunks_per_run |-> 0,
           nsubruns |-> 0]

Init ==
    /\ scen \in Scenarios
    /\ inst = Construct(scen.cls, scen.user)
    /\ self = inst
    /\ pc = At("call")
    /\ est = [EmptyEst EXCEPT !.n_chunks = scen.n_chunks]
    /\ run = EmptyRun
    /\ mem = NoMem
    /\ held = {}
    /\ queue = << >>
    /\ trace = << >>
    /\ subruns = << >>
    /\ out = NoOutcome
    /\ prev = NoPrev

Next ==
    \/ CMIWithoutConditional
    \/ Prepare
    \/ SubRunStart
    \/ Alloc
    \/ LaunchKNN
    \/ EnqueueCopy
    \/ CopyReturn
    \/ Finish
    \/ LaunchRS
    \/ DeviceStep
    \/ Release
    \/ SingleRunReturn
    \/ Collect
    \/ EstimateReturn
    \/ DeviceFail
    \/ Finalize
    \/ Recall

Spec == Init /\ [][Next]_vars

(***************************************************************************)
(* opencl_kraskov() of estimators_cmi.py: the options it reads and the     *)
(* noise it adds to the caller's arrays, up to the neighbour searches.     *)
(* Levels and coordinates are reals in units of 1e-8 (1.0 is NoiseUnit).   *)
(***************************************************************************)
\* 1.0 in units of 1e-8
NoiseUnit == 10 ^ 8

\* 1e-8, the level taken when the option is absent
noise_default == 1

\* the caller's array (coordinates in 1 / FixedPoint) in units of 1e-8
InNoiseUnits(arr) ==
    [i \in 1..Len(arr) |-> [c \in 1..Len(arr[i]) |->
        arr[i][c] * (NoiseUnit \div FixedPoint)]]

\* int(x) of a real x >= 0: the fraction is dropped
IntCast(x) == (x \div NoiseUnit) * NoiseUnit

\* try: opts[key] / except KeyError: default, for whole-numbered options
OptInt(opts, key, default) == IF key \in DOMAIN opts THEN opts[key] ELSE default

\* try: noise_level = int(opts['noise_level']) / except KeyError: 1e-8
OptNoiseLevel(opts) ==
    IF "noise_level" \in DOMAIN opts THEN IntCast(opts.noise_level)
    ELSE noise_default

\* arr += np.random.normal(size = arr.shape) * noise_level; the draws of one
\* array follow those of the arrays before it (first draw number: base + 1)
PlusNoise(arr, noise_level, nseed, base) ==
    [i \in 1..Len(arr) |-> [c \in 1..Len(arr[i]) |->
        arr[i][c] + RandNormal(nseed, base + (i - 1) * Len(arr[i]) + c) * noise_level]]

\* the levels a caller gives: 0, 1e-8, 0.5, 1.0, 1.5
NoiseLevels ==
    {0, noise_default, NoiseUnit \div 2, NoiseUnit, NoiseUnit + NoiseUnit \div 2}

\* the calls of opencl_kraskov: with and without a noise_level option
NoiseCalls ==
    {[cls |-> "opencl_kraskov", user |-> o, nrows |-> n, dims |-> OneDim,
      dseed |-> d, rseed |-> z] :
        o \in {[kraskov_k |-> 1]}
              \union {[kraskov_k |-> 1, noise_level |-> l] : l \in NoiseLevels},
        n \in 1..Rows, d \in 0..MaxSeed, z \in 0..MaxSeed}

\* the options read (lines 46-67)
ParseOpts ==
    /\ pc.at = "opts"
    /\ self' = [cls |-> scen.cls,
                settings |-> [kraskov_k |-> OptInt(scen.user, "kraskov_k", 4),
                              theiler_t |-> OptInt(scen.user, "theiler_t", 0),
                              noise_level |-> OptNoiseLevel(scen.user)]]
    /\ pc' = At("noise")
    /\ UNCHANGED << scen, inst, est, run, mem, held, queue, trace, subruns, out, prev >>

\* the noise added to var1, var2 and conditional, in this order (lines 70-72)
AddNoiseToArrays ==
    /\ pc.at = "noise"
    /\ LET cells1 == scen.nrows * scen.dims[1]
           cells2 == scen.nrows * scen.dims[2]
           level == self.settings.noise_level
       IN  est' = [est EXCEPT
                     !.signallength = scen.nrows,
                     !.var1 = PlusNoise(InNoiseUnits(Var1), level, scen.rseed, 0),
                     !.var2 = PlusNoise(InNoiseUnits(Var2), level, scen.rseed,
                                        cells1),
                     !.conditional = PlusNoise(InNoiseUnits(Conditional), level,
                                               scen.rseed, cells1 + cells2)]
    /\ pc' = At("search")
    /\ UNCHANGED << scen, inst, self, run, mem, held, queue, trace, subruns, out, prev >>

NoiseInit ==
    /\ scen \in NoiseCalls
    /\ inst = [cls |-> scen.cls, settings |-> scen.user]
    /\ self = inst
    /\ pc = At("opts")
    /\ est = EmptyEst
    /\ run = EmptyRun
    /\ mem = NoMem
    /\ held = {}
    /\ queue = << >>
    /\ trace = << >>
    /\ subruns = << >>
    /\ out = NoOutcome
    /\ prev = NoPrev

NoiseNext ==
    \/ ParseOpts
    \/ AddNoiseToArrays

NoiseSpec == NoiseInit /\ [][NoiseNext]_vars

(***************************************************************************)
(* Properties.                                                             *)
(***************************************************************************)
\* positions of the trace that hold an operation of a kind
EventsOf(op) == {i \in 1..Len(trace) : trace[i].op = op}
Waits == {i \in 1..Len(trace) : trace[i].op \in {"wait", "finish"}}
Commands == {i \in 1..Len(trace) : trace[i].op \in {"knn", "rs", "copy"}}

\* C1: estimate() splits trial-chunks 0..n_chunks-1 into consecutive groups
\* of at most chunks_per_run whole chunks, one sub-run per group: sub-run i
\* starts at chunk (i-1)*chunks_per_run and takes the chunks left up to
\* chunks_per_run; a call that returns has run ceil(n_chunks/chunks_per_run)
\* sub-runs and has concatenated one result per chunk in ascending chunk order.
C1_SubRunsPartitionChunks ==
    est.chunks_per_run > 0 =>
        /\ \A i \in 1..Len(subruns) :
              /\ subruns[i].r = (i - 1) * est.chunks_per_run
              /\ subruns[i].r < est.n_chunks
              /\ subruns[i].n_chunks =
                     Min(est.chunks_per_run, est.n_chunks - subruns[i].r)
              /\ subruns[i].startidx = subruns[i].r * est.chunklength
              /\ subruns[i].stopidx =
                     (subruns[i].r + subruns[i].n_chunks) * est.chunklength
        /\ (pc.at = "done" /\ out.kind = "ok") =>
              /\ Len(subruns) = CeilDiv(est.n_chunks, est.chunks_per_run)
              /\ est.chunk_ids = [j \in 1..est.n_chunks |-> j - 1]
              /\ Len(est.mi_array) = est.n_chunks

\* a call of three chunks that returned after sub-runs of two and one chunks
C1_Witness ==
    /\ pc.at = "done"
    /\ out.kind = "ok"
    /\ est.n_chunks = 3
    /\ est.chunks_per_run = 2
    /\ Len(subruns) = 2
    /\ subruns[2].n_chunks = 1

\* C2: a call of the CMI estimator without conditioning variable returns what
\* the same call (same settings, data, n_chunks, device and random state) of
\* the MI estimator returns, and runs as an MI estimator.
C2_NoConditionalIsMI ==
    /\ (self.cls = "CMI" /\ ~scen.conditional) => pc.at = "call"
    /\ (pc.at = "done" /\ prev.scen.recall = "entry") => out = prev.out

\* the CMI estimator returned estimates for two chunks, and so did the MI
\* estimator called next
C2_Witness ==
    /\ pc.at = "done"
    /\ prev.scen.recall = "entry"
    /\ prev.scen.cls = "CMI"
    /\ scen.cls = "MI"
    /\ out.kind = "ok"
    /\ Len(out.value[1]) = 2

\* C3: in a sub-run the k-NN kernel is the first operation on the queue, and
\* a range-search kernel is issued only when the k-NN kernel has completed
\* and the host has waited for the queue since the k-NN launch.
C3_KnnCompleteBeforeRangeSearch ==
    /\ trace # << >> => trace[1].op = "knn"
    /\ \A i \in EventsOf("rs") :
          /\ trace[1].done
          /\ \E w \in Waits : w < i
    /\ \A c \in 1..Len(queue) : (queue[c].op = "rs" /\ ~queue[c].orphan) =>
          \A d \in 1..Len(queue) : queue[d].op = "knn" => queue[d].orphan

\* a range-search kernel is on the queue, not yet executed
C3_Witness ==
    /\ \E i \in EventsOf("rs") : ~trace[i].done
    /\ queue # << >>
    /\ Head(queue).op = "rs"

\* the count copies of a sub-run, and the range-search kernels
CountCopies == {i \in EventsOf("copy") : trace[i].slot >= 1}
LastRS == CHOOSE i \in EventsOf("rs") : \A j \in EventsOf("rs") : j <= i

\* C4 as stated: at the end of a sub-run, a wait lies after the launch of
\* the last range-search kernel and before the first copy of a count buffer.
C4_WaitBetweenLastSearchAndCopies ==
    pc.at = "collect" =>
        \A c \in CountCopies : \E w \in Waits : LastRS < w /\ w < c

\* C4: every count buffer is copied by a blocking copy issued after the
\* range-search kernel that writes it, on the in-order queue: the host goes on
\* past a copy only when the queue has executed it, so when the sub-run
\* aggregates, every range-search kernel and every copy has completed.
C4_CountsCopiedAfterTheirSearch ==
    /\ \A c \in CountCopies :
          /\ \E i \in EventsOf("rs") : i < c /\ trace[i].slot = trace[c].slot
          /\ \A w \in Waits : (w > c /\ trace[w].slot = trace[c].slot
                               /\ trace[w].op = "wait") =>
                \A i \in Commands : i <= c => trace[i].done
    /\ (pc.at = "run" /\ Instr.op \in {"release", "return"}) =>
          /\ queue = << >>
          /\ \A i \in Commands : trace[i].done
          /\ \A c \in CountCopies : \E w \in Waits : w > c
          /\ Cardinality(CountCopies) = NumSearches(self.cls)

\* the sub-run of a CMI estimate is about to aggregate its three count arrays
C4_Witness ==
    /\ pc.at = "run"
    /\ Instr.op = "return"
    /\ self.cls = "CMI"
    /\ Cardinality(CountCopies) = 3

\* the search commands of the running sub-run on the queue
Searches == {c \in 1..Len(queue) : queue[c].op \in {"knn", "rs"} /\ ~queue[c].orphan}

\* C5: every k-NN and range-search command of a sub-run is launched with the
\* chunk length of the sub-run as its trial length, and with it the rows a
\* genuine row of trial-chunk c is compared with are genuine rows of the
\* same trial-chunk c, however many chunks the sub-run takes.
C5_NeighboursInOwnChunk ==
    \A c \in Searches :
        LET a == queue[c].args
        IN  /\ a.triallength = run.chunklength
            /\ \A tid \in 0..(run.signallength - 1) :
                  \A b \in Candidates(tid, a.triallength, a.signallength, a.exclude) :
                      /\ b < run.signallength
                      /\ b \div run.chunklength = tid \div run.chunklength

\* a range search is queued in a sub-run of several chunks of several rows
C5_Witness ==
    /\ \E c \in Searches : queue[c].op = "rs"
    /\ run.n_chunks >= 2
    /\ run.chunklength >= 2

\* C6: with noise_level = 0, a call that runs its chunks in sub-runs of
\* another size returns the same estimates, distances and counts as the call
\* on the same data that ran all chunks in one sub-run.
C6_BatchingKeepsResults ==
    (/\ pc.at = "done"
     /\ prev.scen.recall = "memory"
     /\ scen.user.noise_level = 0
     /\ prev.out.kind = "ok"
     /\ out.kind = "ok") => out = prev.out

\* a call in one sub-run and the same call in one sub-run per chunk have
\* both returned their counts
C6_Witness ==
    /\ pc.at = "done"
    /\ prev.scen.recall = "memory"
    /\ scen.user.noise_level = 0
    /\ prev.out.kind = "ok"
    /\ out.kind = "ok"
    /\ prev.nsubruns = 1
    /\ Len(subruns) = MaxChunks
    /\ Len(out.value) >= 4

\* C7: with noise_level = 0, a call repeated on the same data with the random
\* generator in another state returns the same outcome: estimates, distances
\* and counts.
C7_Deterministic ==
    (/\ pc.at = "done"
     /\ prev.scen.recall = "reseed"
     /\ scen.user.noise_level = 0) => out = prev.out

\* two calls with different random states have returned counts
C7_Witness ==
    /\ pc.at = "done"
    /\ prev.scen.recall = "reseed"
    /\ scen.user.noise_level = 0
    /\ scen.rseed # prev.scen.rseed
    /\ out.kind = "ok"
    /\ Len(out.value) >= 4

\* the random state of the current sub-run
RunSeed == scen.rseed + subruns[Len(subruns)].r

\* column col (0-based) of the assembled point set: the variable and its column
ColumnOf(cls, col) ==
    IF col < run.var1dim THEN [v |-> 1, arr |-> run.var1, c |-> col + 1]
    ELSE IF cls = "MI"
    THEN [v |-> 2, arr |-> run.var2, c |-> col - run.var1dim + 1]
    ELSE IF col < run.var1dim + run.conddim
    THEN [v |-> 3, arr |-> run.conditional, c |-> col - run.var1dim + 1]
    ELSE [v |-> 2, arr |-> run.var2, c |-> col - run.var1dim - run.conddim + 1]

\* C8: in a sub-run of n >= 1 rows the padded row count is the smallest
\* multiple of 1024 that is >= n, pad_size is the difference and lies in
\* 0..1023, is 0 exactly when n is a multiple of 1024, and row i of the
\* sub-run's arrays is row i of every column of the point set on the device,
\* with the value the float32 cast (after the noise, if any) gives it.
C8_PaddedToMultiple ==
    pc.at = "run" =>
        /\ run.signallength >= 1
        /\ run.signallength_padded % pad_target = 0
        /\ run.signallength_padded >= run.signallength
        /\ run.signallength_padded - pad_target < run.signallength
        /\ run.pad_size = run.signallength_padded - run.signallength
        /\ run.pad_size \in 0..(pad_target - 1)
        /\ (run.pad_size = 0) <=> (run.signallength % pad_target = 0)
        /\ mem["d_pointset"].alloc =>
              /\ mem["d_pointset"].cells = run.pointdim * run.signallength_padded
              /\ \A col \in 0..(run.pointdim - 1) : \A i \in 0..(run.signallength - 1) :
                    LET q == col * run.signallength_padded + i + 1
                        from == ColumnOf(self.cls, col)
                        noise == IF self.settings.noise_level > 0
                                 THEN self.settings.noise_level * RandNormal(RunSeed, q)
                                 ELSE 0
                    IN  mem["d_pointset"].data[q] = Float32(from.arr[i + 1][from.c] + noise)

\* a sub-run of 1025 rows, padded to 2048, has its point set on the device
C8_Witness ==
    /\ pc.at = "run"
    /\ run.signallength = pad_target + 1
    /\ run.signallength_padded = 2 * pad_target
    /\ mem["d_pointset"].alloc

\* rows of the point set of the call: the caller's rows less the MI lag
PointSetRows ==
    IF self.cls = "MI" /\ self.settings.lag_mi > 0
    THEN Max(scen.nrows - self.settings.lag_mi, 0)
    ELSE scen.nrows

\* C9 as stated: the distances and the counts a call returns have one entry
\* per row of the point set (and none of a padding row).
C9_OneEntryPerRow ==
    (pc.at = "done" /\ out.kind = "ok" /\ self.settings.return_counts) =>
        \A j \in 2..Len(out.value) : Len(out.value[j]) = PointSetRows

\* C10 as stated: a call whose point set has a row count that n_chunks does
\* not divide ends with a shape-mismatch error, it never gets past the head
\* of estimate().
C10_IndivisibleRowsFail ==
    (PointSetRows % est.n_chunks # 0) =>
        \/ pc.at = "call"
        \/ pc.at = "done" /\ out = Failure("ShapeMismatch")

\* C11 as stated: the call that follows a failed call starts from the state
\* the instance had before the failed call: its settings, an idle queue and
\* no device memory held for it.
C11_FailedCallLeavesInstance ==
    (pc.at = "call" /\ prev.out.kind = "error") =>
        /\ inst = Construct(scen.cls, scen.user)
        /\ queue = << >>
        /\ mem = NoMem
        /\ held = {}

\* C12 as stated: whatever calls have been made, the settings of the
\* instance the caller holds are the settings its construction gave it; the
\* MI estimator a CMI call without conditioning variable builds has its own
\* settings.  Holds or not with what GPUKraskov.__init__ keeps.
C12_SettingsFixed ==
    /\ inst = Construct(scen.cls, scen.user)
    /\ self.cls = inst.cls => self = inst

\* C12 for a base class that keeps a copy of the dictionary it is given: no
\* call adds, removes or changes an entry of the settings of the instance.
C12_SettingsFixedWhenCopied ==
    scen.kept = "copy" => C12_SettingsFixed

\* C12 for a base class that keeps the dictionary it is given: calls with a
\* conditioning variable and calls of the MI estimator leave the settings as
\* they are, a CMI call without conditioning variable leaves every entry as
\* it is and adds lag_mi = 0 (line 141).
C12_DelegationSetsLag ==
    scen.kept = "given" =>
        /\ inst.settings \in {Construct(inst.cls, scen.user).settings,
                              Construct("MI", scen.user).settings}
        /\ (inst.cls = "CMI" /\ pc.at # "call" /\ ~scen.conditional) =>
               inst.settings = Construct("MI", scen.user).settings

\* a CMI call without conditioning variable has returned: the MI estimator
\* it built has a lag_mi entry, the CMI estimator has none
C12_WitnessCopied ==
    /\ pc.at = "done"
    /\ out.kind = "ok"
    /\ inst.cls = "CMI"
    /\ self.cls = "MI"
    /\ "lag_mi" \in DOMAIN self.settings
    /\ "lag_mi" \notin DOMAIN inst.settings

\* a CMI call without conditioning variable has returned: the CMI estimator
\* the caller holds has a lag_mi entry its construction did not give it
C12_WitnessGiven ==
    /\ pc.at = "done"
    /\ out.kind = "ok"
    /\ inst.cls = "CMI"
    /\ "lag_mi" \in DOMAIN inst.settings
    /\ "lag_mi" \notin DOMAIN Construct("CMI", scen.user).settings

\* C13 as stated: whatever debug and return_counts are, a call whose sub-runs
\* have all completed returns: the estimates alone when return_counts is off,
\* the estimates, the distances and one count array per range search when
\* return_counts is on.
C13_EveryCombinationReturns ==
    (pc.at = "done" /\ est.r >= est.n_chunks /\ Len(subruns) >= 1) =>
        /\ out.kind = "ok"
        /\ Len(out.value) = IF self.settings.return_counts
                            THEN 2 + NumSearches(self.cls) ELSE 1
        /\ out.value[1] = est.mi_array

\* the noise level the caller of opencl_kraskov configured
ConfiguredLevel ==
    IF "noise_level" \in DOMAIN scen.user THEN scen.user.noise_level
    ELSE noise_default

\* C14 as stated: the arrays handed to the neighbour searches are the
\* caller's values plus the draws scaled by the level the caller configured
\* (the default when the option is absent), and are the caller's values
\* when that level is 0.
C14_NoiseScaledAsConfigured ==
    pc.at = "search" =>
        /\ est.var1 = PlusNoise(InNoiseUnits(Var1), ConfiguredLevel, scen.rseed, 0)
        /\ est.var2 = PlusNoise(InNoiseUnits(Var2), ConfiguredLevel, scen.rseed,
                                scen.nrows * scen.dims[1])
        /\ ConfiguredLevel = 0 =>
              (est.var1 = InNoiseUnits(Var1) /\ est.var2 = InNoiseUnits(Var2))

\* C15 as stated: a sub-run starts with no device buffer allocated, creates
\* its buffers, and has released them all when it returns; between sub-runs
\* nothing is allocated.
C15_BuffersPerSubRun ==
    /\ (pc.at = "run" /\ Instr.op = "alloc") => (mem = NoMem /\ held = {})
    /\ (pc.at = "run" /\ Instr.op = "return") => (mem = NoMem /\ held = {})
    /\ pc.at \in {"loop", "collect"} => (mem = NoMem /\ held = {})

\* C16 as stated: in a call of the MI estimator that got past the head of
\* estimate(), the rows left after the lag are n_chunks chunks of chunklength
\* rows: none is left out, whatever lag_mi is.
C16_LaggedRowsFillChunks ==
    (self.cls = "MI" /\ pc.at \in {"loop", "run", "collect"}) =>
        /\ est.signallength = PointSetRows
        /\ est.signallength = est.n_chunks * est.chunklength

\* C17: the row count of a sub-run is n_chunks * chunklength of the sub-run,
\* and in every search of the sub-run a padding row (index >= row count) is
\* in a group index // chunklength that no genuine row is in: a padding row
\* is compared with padding rows only, a genuine row with genuine rows only.
C17_PaddingInOwnGroups ==
    /\ pc.at = "run" => run.signallength = run.n_chunks * run.chunklength
    /\ \A c \in Searches :
          LET a == queue[c].args
          IN  /\ \A tid \in run.signallength..(a.signallength - 1) :
                    /\ tid \div a.triallength >= run.n_chunks
                    /\ \A b \in Candidates(tid, a.triallength, a.signallength, a.exclude) :
                          b >= run.signallength
              /\ \A tid \in 0..(run.signallength - 1) :
                    tid \div a.triallength < run.n_chunks

\* a search is queued in a sub-run of several chunks of several rows, whose
\* point set has padding rows
C17_Witness ==
    /\ \E c \in Searches : queue[c].args.signallength > run.signallength
    /\ run.pad_size > 0
    /\ run.n_chunks >= 2
    /\ run.chunklength >= 2

\* C18 as stated: the sub-region a range search is launched on has the byte
\* extent of the columns the launch searches, sizeof_float *
\* signallength_padded * dim with the dim passed to the launch, and lies in
\* the point set.
C18_ViewSpansSubspace ==
    \A c \in 1..Len(queue) : (queue[c].op = "rs" /\ ~queue[c].orphan) =>
        LET a == queue[c].args
        IN  /\ a.view.buf = "d_pointset"
            /\ a.view.size = sizeof_float * a.signallength * a.dim
            /\ a.view.origin + a.view.size <= sizeof_float * mem["d_pointset"].cells

\* C19 as stated: in every sub-run, on every device, the work-group size is
\* at most the device's largest, divides the padded row count, and the
\* global size is a multiple of it that is >= the padded row count.
C19_LaunchParameters ==
    pc.at = "run" =>
        /\ run.workitems_x <= scen.max_work_group_size
        /\ run.signallength_padded % run.workitems_x = 0
        /\ run.NDRange_x % run.workitems_x = 0
        /\ run.NDRange_x >= run.signallength_padded

\* C20 as stated: the distances a sub-run returns in debug mode are, row by
\* row, the radii its range searches used: the cells of the radius
\* sub-region of the distance buffer, which starts at cell
\* (kraskov_k - 1) * signallength_padded.
C20_DebugDistancesAreRadii ==
    (pc.at = "collect" /\ self.settings.debug) =>
        /\ Len(run.result[2]) = run.signallength
        /\ \A i \in 1..run.signallength :
              run.result[2][i] =
                  run.host[0][(self.settings.kraskov_k - 1) * run.signallength_padded + i]

\* C21 as stated: of the tuple a sub-run of the CMI estimator hands to
\* estimate() in debug mode, the entries estimate() concatenates as
\* count_var1, count_var2 and count_cond (the third, fourth and fifth) are
\* the counts of the first range search (var1 with the conditional), of the
\* second (var2 with the conditional) and of the third (the conditional alone).
C21_CountsUnderOwnNames ==
    (pc.at = "collect" /\ self.cls = "CMI" /\ self.settings.debug) =>
        \A j \in 1..NumSearches(self.cls) :
            run.result[2 + j] = Truncate(run.host[j], run.signallength)

=============================================================================
